---------------------------- MODULE Spec2Model ----------------------------
(***************************************************************************)
(* The games catalogue Lambda (src/lambda/lambda_function.py): one HTTP    *)
(* event per invocation, dispatched on (method, path) to listings and      *)
(* single-item writes on the DynamoDB table "games-catalogue", keyed by    *)
(* (platform, game_id).                                                    *)
(*                                                                         *)
(* Python values are encoded as follows.  A str is the sequence of its     *)
(* characters (each a one-character string); None is the sequence          *)
(* <<"None">>, whose element is not a character, so it differs from every  *)
(* str.  A dict is a function whose DOMAIN is its set of keys.  HTTP       *)
(* methods, field and attribute names, status values, template names and   *)
(* exception messages are only ever compared for equality and are kept as  *)
(* atomic strings.  A scan or query result is the set of its items.        *)
(***************************************************************************)
EXTENDS Naturals, Sequences, FiniteSets, Bags, TLC

VARIABLES
    table,        \* the items of the DynamoDB table (a set of dicts)
    uuidsIssued,  \* how many uuid4() values have been drawn so far
    event,        \* the event of the last invocation
    response,     \* the envelope the last invocation returned
    requests,     \* how many invocations there have been
    wishlisted,   \* history: keys of the records add_to_wishlist has written
    purchaseCalled, \* history: the keys passed to table.update_item, a bag
    deleted,      \* history: keys passed to table.delete_item
    everOwned     \* history: keys that have been in the owned listing

vars == <<table, uuidsIssued, event, response, requests, wishlisted,
          purchaseCalled, deleted, everOwned>>

---------------------------------------------------------------------------
\* Bounds of the model.

\* The runs checked are those of at most this many invocations.
MaxRequests == 4

\* uuid4() is drawn at most this many times.
MaxUuids == 2

---------------------------------------------------------------------------
\* Python values.

None == <<"None">>

\* bool(v) of a str-or-None value
Truthy(v) == v # None /\ v # <<>>

\* all([...])
All(vs) == \A i \in DOMAIN vs : Truthy(vs[i])

\* dict.get(k) / dict.get(k, default)
GetOr(d, k, default) == IF k \in DOMAIN d THEN d[k] ELSE default

Get(d, k) == GetOr(d, k, None)

\* s.startswith(prefix)
StartsWith(s, prefix) ==
    Len(s) >= Len(prefix) /\ SubSeq(s, 1, Len(prefix)) = prefix

\* s[n:]
SliceFrom(s, n) == SubSeq(s, n + 1, Len(s))

\* s.lstrip(c) for a one-character c
RECURSIVE LStrip(_, _)
LStrip(s, c) == IF s # <<>> /\ Head(s) = c THEN LStrip(Tail(s), c) ELSE s

\* The string literals of the handler.
GcPrefix == <<"/", "g", "c">>
RootPath == <<"/">>
WishlistPath == <<"/", "w", "i", "s", "h", "l", "i", "s", "t">>
AddPath == <<"/", "a", "d", "d">>
WishlistAddPath == WishlistPath \o AddPath
WishlistPurchasedPath == WishlistPath \o <<"/", "p", "u", "r", "c", "h", "a", "s", "e", "d">>
DeletePath == <<"/", "d", "e", "l", "e", "t", "e">>
WishlistDeletePath == WishlistPath \o DeletePath
MissingCreateFields == "Missing required fields: platform, game_name"
MissingKeyFields == "Missing required fields: platform, game_id"
KeyErrorBody == "'body'"

---------------------------------------------------------------------------
\* The DynamoDB table: items are dicts, at most one per (platform, game_id).

Key(item) == <<item.platform, item.game_id>>

\* table.put_item(Item=item): writes the item, replacing one with the same key
PutItem(t, item) == {i \in t : Key(i) # Key(item)} \cup {item}

\* table.delete_item(Key=key): unconditional, a missing key is not an error
DeleteItem(t, key) == {i \in t : Key(i) # key}

\* "SET #s = :v" applied to one item
SetAttr(item, attr, value) ==
    [a \in DOMAIN item \cup {attr} |-> IF a = attr THEN value ELSE item[a]]

\* table.update_item(Key=key, UpdateExpression="SET #s = :v") with no
\* ConditionExpression: edits the item, or adds a new item holding the key
\* and the SET attribute when the table has no item with that key
UpdateItemSet(t, key, attr, value) ==
    IF \E i \in t : Key(i) = key
    THEN {IF Key(i) = key THEN SetAttr(i, attr, value) ELSE i : i \in t}
    ELSE t \cup {SetAttr([platform |-> key[1], game_id |-> key[2]], attr, value)}

\* FilterExpression "attribute_not_exists(#s) OR #s = :owned"
OwnedFilter(item) == "status" \notin DOMAIN item \/ item.status = "owned"

\* FilterExpression "#s = :wishlist"
WishlistFilter(item) == "status" \in DOMAIN item /\ item.status = "wishlist"

\* table.scan(FilterExpression=owned): the items the filter keeps
ScanOwned(t) == {i \in t : OwnedFilter(i)}

\* table.query(KeyConditionExpression="platform = :platform", FilterExpression=owned)
QueryOwned(t, platform) == {i \in t : i.platform = platform /\ OwnedFilter(i)}

\* table.scan(FilterExpression=wishlist)
ScanWishlist(t) == {i \in t : WishlistFilter(i)}

get_all_games_data == ScanOwned(table)

get_games_by_platform_data(platform) == QueryOwned(table, platform)

get_wishlist_data == ScanWishlist(table)

---------------------------------------------------------------------------
\* uuid4() and datetime.now().

UuidDigits == <<"1", "2", "3", "4", "5", "6", "7", "8", "9">>

\* The n-th value uuid4() returns, as a str.  Values are pairwise distinct.
UuidStr(n) == <<"u", UuidDigits[n]>>

\* A faulty uuid4: the same value at every draw.
uuid4_repeated == UuidStr(1)

\* str(uuid.uuid4()): a value never drawn before.  The count advances when
\* the value is stored; a value drawn and dropped by a failed validation
\* leaves no trace.
uuid4 == UuidStr(uuidsIssued + 1)

\* datetime.now().isoformat(): some timestamp str; no operation reads it back.
NowIso == <<"T">>

---------------------------------------------------------------------------
\* sorted(set(...)) over str values.

\* ord(c) for the characters platform names are made of
CodePoint(c) ==
    CASE c = "/" -> 47 [] c = "S" -> 83 [] c = "c" -> 99
      [] c = "g" -> 103 [] c = "n" -> 110 [] OTHER -> 0

\* a < b on str: lexicographic by code point
RECURSIVE StrLess(_, _)
StrLess(a, b) ==
    IF b = <<>> THEN FALSE
    ELSE IF a = <<>> THEN TRUE
    ELSE IF Head(a) = Head(b) THEN StrLess(Tail(a), Tail(b))
    ELSE CodePoint(Head(a)) < CodePoint(Head(b))

\* sorted(S) of a set of str
RECURSIVE Sorted(_)
Sorted(S) ==
    IF S = {} THEN <<>>
    ELSE LET m == CHOOSE x \in S : \A y \in S \ {x} : StrLess(x, y)
         IN  <<m>> \o Sorted(S \ {m})

\* sorted(set(g["platform"] for g in items))
PlatformsOf(items) == Sorted({g.platform : g \in items})

---------------------------------------------------------------------------
\* The response builders.

\* render_html(template_name, **kwargs): the envelope's status is 200 for
\* every template; the body is the template rendered with kwargs
render_html(template_name, kwargs) ==
    [statusCode |-> 200,
     headers |-> [h \in {"Content-Type"} |-> "text/html; charset=utf-8"],
     body |-> [template |-> template_name, kwargs |-> kwargs]]

redirect_response(location) ==
    [statusCode |-> 303,
     headers |-> [h \in {"Location"} |-> location],
     body |-> ""]

---------------------------------------------------------------------------
\* The write operations.  Each yields what the call did: whether it raised
\* (and str(e)), and the table it leaves.

Raise(msg) == [raised |-> TRUE, message |-> msg, table |-> table]

Return(t) == [raised |-> FALSE, message |-> "", table |-> t]

\* The item add_game / add_to_wishlist writes
NewItem(body, game_id, status) ==
    [platform |-> Get(body, "platform"),
     game_id |-> game_id,
     game_name |-> Get(body, "game_name"),
     genre |-> Get(body, "genre"),
     year |-> Get(body, "year"),
     status |-> status,
     added_date |-> NowIso]

\* A faulty add_game: the item is written before the fields are checked.
add_game_writes_first(body) ==
    IF ~All(<<Get(body, "platform"), Get(body, "game_name")>>)
    THEN [raised |-> TRUE, message |-> MissingCreateFields,
          table |-> PutItem(table, NewItem(body, uuid4, "owned"))]
    ELSE Return(PutItem(table, NewItem(body, uuid4, "owned")))

add_game(body) ==
    IF ~All(<<Get(body, "platform"), Get(body, "game_name")>>)
    THEN Raise(MissingCreateFields)
    ELSE Return(PutItem(table, NewItem(body, uuid4, "owned")))

\* A faulty add_to_wishlist: the item is written with status "owned".
add_to_wishlist_as_owned(body) ==
    IF ~All(<<Get(body, "platform"), Get(body, "game_name")>>)
    THEN Raise(MissingCreateFields)
    ELSE Return(PutItem(table, NewItem(body, uuid4, "owned")))

add_to_wishlist(body) ==
    IF ~All(<<Get(body, "platform"), Get(body, "game_name")>>)
    THEN Raise(MissingCreateFields)
    ELSE Return(PutItem(table, NewItem(body, uuid4, "wishlist")))

delete_game(body) ==
    IF ~All(<<Get(body, "platform"), Get(body, "game_id")>>)
    THEN Raise(MissingKeyFields)
    ELSE Return(DeleteItem(table, <<Get(body, "platform"), Get(body, "game_id")>>))

delete_from_wishlist(body) ==
    IF ~All(<<Get(body, "platform"), Get(body, "game_id")>>)
    THEN Raise(MissingKeyFields)
    ELSE Return(DeleteItem(table, <<Get(body, "platform"), Get(body, "game_id")>>))

\* A faulty mark_as_purchased: the status is flipped, owned back to wishlist.
mark_as_purchased_flips(body) ==
    IF ~All(<<Get(body, "platform"), Get(body, "game_id")>>)
    THEN Raise(MissingKeyFields)
    ELSE LET key == <<Get(body, "platform"), Get(body, "game_id")>>
         IN  Return(UpdateItemSet(table, key, "status",
                      IF key \in {Key(i) : i \in ScanOwned(table)}
                      THEN "wishlist" ELSE "owned"))

mark_as_purchased(body) ==
    IF ~All(<<Get(body, "platform"), Get(body, "game_id")>>)
    THEN Raise(MissingKeyFields)
    ELSE Return(UpdateItemSet(table, <<Get(body, "platform"), Get(body, "game_id")>>,
                              "status", "owned"))

---------------------------------------------------------------------------
\* The request normalizer and the form parser.

\* The two envelope shapes: requestContext.http.{method, path}, or the flat
\* httpMethod / path with their defaults
Method(ev) ==
    IF "requestContext" \in DOMAIN ev /\ "http" \in DOMAIN ev.requestContext
    THEN ev.requestContext.http.method
    ELSE GetOr(ev, "httpMethod", "GET")

RawPath(ev) ==
    IF "requestContext" \in DOMAIN ev /\ "http" \in DOMAIN ev.requestContext
    THEN ev.requestContext.http.path
    ELSE GetOr(ev, "path", RootPath)

\* if path.startswith("/gc"): path = path[3:]; if not path: path = "/"
NormalizePath(path) ==
    LET stripped == IF StartsWith(path, GcPrefix) THEN SliceFrom(path, 3) ELSE path
    IN  IF stripped = <<>> THEN RootPath ELSE stripped

Path(ev) == NormalizePath(RawPath(ev))

\* event["body"] raises KeyError when the event has no body
HasBody(ev) == "body" \in DOMAIN ev

NonBlank(v) == v # <<>>

\* parse_qs(form): the values of each field in order, blank values dropped,
\* a field left with no value omitted.  A form is given as its fields'
\* value lists.
parse_qs(form) ==
    [k \in {f \in DOMAIN form : SelectSeq(form[f], NonBlank) # <<>>}
        |-> SelectSeq(form[k], NonBlank)]

\* {k: v[0] for k, v in parse_qs(event["body"]).items()}
FormBody(ev) ==
    LET qs == parse_qs(ev.body) IN [k \in DOMAIN qs |-> qs[k][1]]

\* except Exception as e: render_html("error.html", status_code=500, message=str(e))
Catch(out, ok) ==
    IF out.raised
    THEN render_html("error.html", [status_code |-> 500, message |-> out.message])
    ELSE ok

---------------------------------------------------------------------------
\* The events the model draws.

PlatS == <<"S">>
PlatGcn == <<"g", "c", "n">>
Platforms == {PlatS, PlatGcn}
NameZ == <<"Z">>
GenreR == <<"R">>

NoFields == [k \in {} |-> <<>>]

\* one form field with its list of values; no field when the list is empty
Field(k, vals) == IF vals = <<>> THEN NoFields ELSE k :> vals

\* platform and game_name absent, blank or given (the first of several
\* values counts), with or without a genre
CreateForms ==
    {Field("platform", f[1]) @@ Field("game_name", f[2]) @@ Field("genre", f[3]) :
        f \in {<< <<>>, <<NameZ>>, <<>> >>,
               << << <<>> >>, <<NameZ>>, <<>> >>,
               << <<PlatS>>, <<>>, <<>> >>,
               << <<PlatS>>, <<NameZ>>, <<>> >>,
               << <<PlatGcn, PlatS>>, <<NameZ>>, <<GenreR>> >>}}

\* A client names the game_id of a record it has been shown, under either
\* platform, or leaves platform or game_id out.
KeyForms ==
    {Field("platform", <<p>>) @@ Field("game_id", <<UuidStr(i)>>) :
        p \in Platforms, i \in 1..uuidsIssued}
    \cup {Field("platform", <<PlatS>>), Field("game_id", <<UuidStr(1)>>)}

GetPaths ==
    {<<>>, RootPath, GcPrefix, GcPrefix \o WishlistPath}
    \cup {RootPath \o p : p \in Platforms}
    \cup {GcPrefix \o RootPath \o p : p \in Platforms}

FlatEvent(m, p) == [httpMethod |-> m, path |-> p]

UrlEvent(m, p) == [requestContext |-> [http |-> [method |-> m, path |-> p]]]

WithBody(ev, form) == ev @@ ("body" :> form)

Events ==
    {FlatEvent("GET", p) : p \in GetPaths}
    \cup {NoFields, UrlEvent("GET", WishlistPath), FlatEvent("PUT", AddPath)}
    \cup {WithBody(FlatEvent("POST", p), f) :
            p \in {AddPath, GcPrefix \o WishlistAddPath}, f \in CreateForms}
    \cup {WithBody(UrlEvent("POST", WishlistPurchasedPath), f) : f \in KeyForms}
    \cup {WithBody(FlatEvent("DELETE", p), f) :
            p \in {GcPrefix \o DeletePath, WishlistDeletePath}, f \in KeyForms}
    \cup {WithBody(FlatEvent("POST", DeletePath), NoFields),
          WithBody(FlatEvent("DELETE", AddPath), NoFields),
          FlatEvent("POST", AddPath), FlatEvent("POST", RootPath),
          FlatEvent("DELETE", WishlistDeletePath)}

---------------------------------------------------------------------------
\* lambda_handler, one action per row of its dispatch.

OwnedKeys(t) == {Key(i) : i \in ScanOwned(t)}

WishlistKeys(t) == {Key(i) : i \in ScanWishlist(t)}

\* The invocation of ev returns resp and leaves the table t.
Reply(ev, resp, t) ==
    /\ requests' = requests + 1
    /\ event' = ev
    /\ response' = resp
    /\ table' = t
    /\ everOwned' = everOwned \cup OwnedKeys(t)

NoResponse == [statusCode |-> 0, headers |-> NoFields, body |-> ""]

Init ==
    /\ table = {}
    /\ uuidsIssued = 0
    /\ event = NoFields
    /\ response = NoResponse
    /\ requests = 0
    /\ wishlisted = {}
    /\ purchaseCalled = EmptyBag
    /\ deleted = {}
    /\ everOwned = {}

\* GET /
GetIndex(ev) ==
    /\ Method(ev) = "GET"
    /\ Path(ev) = RootPath
    /\ LET games == get_all_games_data
       IN  Reply(ev, render_html("index.html",
                     [games |-> games, platforms |-> PlatformsOf(games)]), table)
    /\ UNCHANGED <<uuidsIssued, wishlisted, purchaseCalled, deleted>>

\* GET /wishlist
GetWishlist(ev) ==
    /\ Method(ev) = "GET"
    /\ Path(ev) # RootPath
    /\ Path(ev) = WishlistPath
    /\ LET wishlist == get_wishlist_data
       IN  Reply(ev, render_html("wishlist.html",
                     [wishlist |-> wishlist, platforms |-> PlatformsOf(wishlist)]), table)
    /\ UNCHANGED <<uuidsIssued, wishlisted, purchaseCalled, deleted>>

\* GET /<anything else>
GetPlatform(ev) ==
    /\ Method(ev) = "GET"
    /\ Path(ev) \notin {RootPath, WishlistPath}
    /\ LET platform == LStrip(Path(ev), "/")
           games == get_games_by_platform_data(platform)
       IN  Reply(ev, render_html("index.html",
                     [games |-> games, platforms |-> PlatformsOf(games),
                      selected_platform |-> platform]), table)
    /\ UNCHANGED <<uuidsIssued, wishlisted, purchaseCalled, deleted>>

\* A faulty PostAdd: add_game is not called when the form has no platform,
\* and the invocation is redirected to /gc.
PostAdd_skips_without_platform(ev) ==
    /\ Method(ev) = "POST"
    /\ Path(ev) = AddPath
    /\ LET platform == GetOr(FormBody(ev), "platform", <<>>)
           out == IF ~HasBody(ev) THEN Raise(KeyErrorBody)
                  ELSE IF Truthy(platform) THEN add_game(FormBody(ev))
                  ELSE Return(table)
           redirect_url == IF Truthy(platform)
                           THEN GcPrefix \o <<"/">> \o platform ELSE GcPrefix
       IN  /\ out.raised \/ uuidsIssued < MaxUuids
           /\ Reply(ev, Catch(out, redirect_response(redirect_url)), out.table)
           /\ uuidsIssued' = IF out.raised \/ out.table = table
                             THEN uuidsIssued ELSE uuidsIssued + 1
    /\ UNCHANGED <<wishlisted, purchaseCalled, deleted>>

\* POST /add
PostAdd(ev) ==
    /\ Method(ev) = "POST"
    /\ Path(ev) = AddPath
    /\ LET out == IF HasBody(ev) THEN add_game(FormBody(ev)) ELSE Raise(KeyErrorBody)
           platform == GetOr(FormBody(ev), "platform", <<>>)
           redirect_url == IF Truthy(platform)
                           THEN GcPrefix \o <<"/">> \o platform ELSE GcPrefix
       IN  /\ out.raised \/ uuidsIssued < MaxUuids
           /\ Reply(ev, Catch(out, redirect_response(redirect_url)), out.table)
           /\ uuidsIssued' = IF out.raised THEN uuidsIssued ELSE uuidsIssued + 1
    /\ UNCHANGED <<wishlisted, purchaseCalled, deleted>>

\* POST /wishlist/add
PostWishlistAdd(ev) ==
    /\ Method(ev) = "POST"
    /\ Path(ev) = WishlistAddPath
    /\ LET out == IF HasBody(ev) THEN add_to_wishlist(FormBody(ev))
                  ELSE Raise(KeyErrorBody)
       IN  /\ out.raised \/ uuidsIssued < MaxUuids
           /\ Reply(ev, Catch(out, redirect_response(GcPrefix \o WishlistPath)), out.table)
           /\ uuidsIssued' = IF out.raised THEN uuidsIssued ELSE uuidsIssued + 1
           /\ wishlisted' = IF out.raised THEN wishlisted
                            ELSE wishlisted \cup {<<FormBody(ev).platform, uuid4>>}
    /\ UNCHANGED <<purchaseCalled, deleted>>

\* POST /wishlist/purchased
PostWishlistPurchased(ev) ==
    /\ Method(ev) = "POST"
    /\ Path(ev) = WishlistPurchasedPath
    /\ LET out == IF HasBody(ev) THEN mark_as_purchased(FormBody(ev))
                  ELSE Raise(KeyErrorBody)
       IN  /\ Reply(ev, Catch(out, redirect_response(GcPrefix \o WishlistPath)), out.table)
           /\ purchaseCalled' = IF out.raised THEN purchaseCalled
                                ELSE purchaseCalled (+) SetToBag({<<FormBody(ev).platform, FormBody(ev).game_id>>})
    /\ UNCHANGED <<uuidsIssued, wishlisted, deleted>>

\* DELETE /delete
DeleteGame(ev) ==
    /\ Method(ev) = "DELETE"
    /\ Path(ev) = DeletePath
    /\ LET out == IF HasBody(ev) THEN delete_game(FormBody(ev)) ELSE Raise(KeyErrorBody)
           platform == GetOr(FormBody(ev), "platform", <<>>)
           redirect_url == IF Truthy(platform) THEN <<"/">> \o platform ELSE RootPath
       IN  /\ Reply(ev, Catch(out, redirect_response(redirect_url)), out.table)
           /\ deleted' = IF out.raised THEN deleted
                         ELSE deleted \cup {<<FormBody(ev).platform, FormBody(ev).game_id>>}
    /\ UNCHANGED <<uuidsIssued, wishlisted, purchaseCalled>>

\* DELETE /wishlist/delete
DeleteWishlist(ev) ==
    /\ Method(ev) = "DELETE"
    /\ Path(ev) = WishlistDeletePath
    /\ LET out == IF HasBody(ev) THEN delete_from_wishlist(FormBody(ev))
                  ELSE Raise(KeyErrorBody)
       IN  /\ Reply(ev, Catch(out, redirect_response(WishlistPath)), out.table)
           /\ deleted' = IF out.raised THEN deleted
                         ELSE deleted \cup {<<FormBody(ev).platform, FormBody(ev).game_id>>}
    /\ UNCHANGED <<uuidsIssued, wishlisted, purchaseCalled>>

\* The (method, path) pairs with a row of their own in the dispatch
Routed(method, path) ==
    \/ method = "GET"
    \/ method = "POST" /\ path \in {AddPath, WishlistAddPath, WishlistPurchasedPath}
    \/ method = "DELETE" /\ path \in {DeletePath, WishlistDeletePath}

\* Anything else falls through to the 404 page; POST and DELETE have read
\* event["body"] by then
NotFound(ev) ==
    /\ ~Routed(Method(ev), Path(ev))
    /\ LET out == IF Method(ev) \in {"POST", "DELETE"} /\ ~HasBody(ev)
                  THEN Raise(KeyErrorBody) ELSE Return(table)
       IN  Reply(ev, Catch(out, render_html("error.html",
                     [status_code |-> 404, message |-> "Not found"])), out.table)
    /\ UNCHANGED <<uuidsIssued, wishlisted, purchaseCalled, deleted>>

\* The events of one more invocation, while the bound allows one
Incoming == IF requests < MaxRequests THEN Events ELSE {}

Next ==
    \/ \E ev \in Incoming : GetIndex(ev)
    \/ \E ev \in Incoming : GetWishlist(ev)
    \/ \E ev \in Incoming : GetPlatform(ev)
    \/ \E ev \in Incoming : PostAdd(ev)
    \/ \E ev \in Incoming : PostWishlistAdd(ev)
    \/ \E ev \in Incoming : PostWishlistPurchased(ev)
    \/ \E ev \in Incoming : DeleteGame(ev)
    \/ \E ev \in Incoming : DeleteWishlist(ev)
    \/ \E ev \in Incoming : NotFound(ev)

Spec == Init /\ [][Next]_vars

---------------------------------------------------------------------------
\* What the claims speak of.

Keys(t) == {Key(i) : i \in t}

\* The item of table t with key k
ItemAt(t, k) == CHOOSE i \in t : Key(i) = k

\* The status a listing sees: an absent status counts as owned
StatusOf(item) == IF "status" \in DOMAIN item THEN item.status ELSE "owned"

\* The invocation that led to ev / resp was the given route
Was(ev, method, path) == Method(ev) = method /\ Path(ev) = path

\* The key a form names
BodyKey(ev) == <<Get(FormBody(ev), "platform"), Get(FormBody(ev), "game_id")>>

IsRedirectTo(resp, location) ==
    resp.statusCode = 303 /\ resp.headers["Location"] = location

\* The error page with the given page status and message
IsErrorPage(resp, status_code, message) ==
    /\ resp.statusCode # 303
    /\ resp.statusCode # 0
    /\ resp.body.template = "error.html"
    /\ resp.body.kwargs.status_code = status_code
    /\ resp.body.kwargs.message = message

\* A form that lacks platform or game_name (absent or empty)
LacksCreateField(ev) ==
    ~Truthy(Get(FormBody(ev), "platform")) \/ ~Truthy(Get(FormBody(ev), "game_name"))

---------------------------------------------------------------------------
\* C1: a record add_to_wishlist created is in no owned listing (all, or by
\* its platform) as long as mark_as_purchased has not been called with its
\* exact (platform, game_id); right after that call its key is in the owned
\* listings and not in the wishlist listing.
C1_WishlistUntilPurchased ==
    /\ \A k \in wishlisted \ BagToSet(purchaseCalled) :
          /\ k \notin OwnedKeys(table)
          /\ k \notin {Key(i) : i \in get_games_by_platform_data(k[1])}
    /\ ( /\ Was(event, "POST", WishlistPurchasedPath)
         /\ response.statusCode = 303
         /\ BodyKey(event) \in wishlisted )
       => /\ BodyKey(event) \in {Key(i) : i \in get_all_games_data}
          /\ BodyKey(event) \in {Key(i) : i \in get_games_by_platform_data(BodyKey(event)[1])}
          /\ BodyKey(event) \notin {Key(i) : i \in get_wishlist_data}

\* C1 witness: mark_as_purchased has just been called on a wishlist record
\* while another wishlist record is still unpurchased.
C1_Witness ==
    /\ Was(event, "POST", WishlistPurchasedPath)
    /\ response.statusCode = 303
    /\ BodyKey(event) \in wishlisted
    /\ BodyKey(event) \in OwnedKeys(table)
    /\ \E k \in wishlisted \ BagToSet(purchaseCalled) : k \in WishlistKeys(table)

\* C2: once delete_game or delete_from_wishlist has been called with a key,
\* no table state that follows holds a record with that key; and a delete of
\* a key the table does not hold returns normally and changes nothing.
C2_DeletedNeverListed ==
    [][ /\ \A k \in deleted' : k \notin Keys(table')
        /\ ( /\ Method(event') = "DELETE"
             /\ Path(event') \in {DeletePath, WishlistDeletePath}
             /\ HasBody(event')
             /\ All(BodyKey(event'))
             /\ BodyKey(event') \notin Keys(table) )
           => response'.statusCode = 303 /\ table' = table ]_vars

\* C3: every record of the table has a non-empty platform, a non-empty
\* game_name and an added_date, and mark_as_purchased adds no key.
C3_RecordsOnlyFromAdd ==
    [][ /\ \A i \in table' :
             /\ Truthy(i.platform)
             /\ "game_name" \in DOMAIN i /\ Truthy(i.game_name)
             /\ "added_date" \in DOMAIN i
        /\ Was(event', "POST", WishlistPurchasedPath) => Keys(table') \subseteq Keys(table)
      ]_vars

\* C4: a successful add_game for platform p leaves the owned listing of p
\* equal to the previous one plus exactly one record, with status "owned",
\* platform p, the given game_name and a non-empty game_id no record had
\* before; no record that existed is overwritten or removed.
C4_AddGameAddsOne ==
    [][ ( Was(event', "POST", AddPath) /\ response'.statusCode = 303 )
        => LET body == FormBody(event')
               before == QueryOwned(table, body.platform)
               after == QueryOwned(table', body.platform)
           IN  /\ before \subseteq after
               /\ Cardinality(after \ before) = 1
               /\ \A r \in after \ before :
                     /\ r.status = "owned"
                     /\ r.platform = body.platform
                     /\ r.game_name = body.game_name
                     /\ Truthy(r.game_id)
                     /\ \A old \in table : old.game_id # r.game_id
               /\ table \subseteq table' ]_vars

\* C4 witness: add_game has just succeeded for a platform that already had
\* an owned record, next to a record of another platform.
C4_Witness ==
    /\ Was(event, "POST", AddPath)
    /\ response.statusCode = 303
    /\ Cardinality(get_games_by_platform_data(FormBody(event).platform)) = 2
    /\ Cardinality(table) > 2

\* C5: a POST to /add or /wishlist/add whose form lacks platform or
\* game_name is answered with statusCode 500 and a body carrying
\* "Missing required fields: platform, game_name".
C5_MissingFieldsIs500 ==
    ( /\ Method(event) = "POST"
      /\ Path(event) \in {AddPath, WishlistAddPath}
      /\ HasBody(event)
      /\ LacksCreateField(event) )
    => /\ response.statusCode = 500
       /\ response.body.kwargs.message = MissingCreateFields

\* C6: an invocation is answered with the 404 "Not found" page exactly when
\* its (method, normalized path) has no row in the dispatch; no GET is.
C6_NotFoundIffUnrouted ==
    requests > 0 =>
       /\ IsErrorPage(response, 404, "Not found") <=> ~Routed(Method(event), Path(event))
       /\ Method(event) = "GET" => ~IsErrorPage(response, 404, "Not found")

\* C7 as stated: POST /add is answered with a 303 to "/gc/<platform>" when
\* the form carries a platform, and to "/gc" when it does not.
C7_AsStated ==
    ( Was(event, "POST", AddPath) /\ HasBody(event) )
    => LET platform == Get(FormBody(event), "platform")
       IN  IF Truthy(platform)
           THEN Truthy(Get(FormBody(event), "game_name"))
                   => IsRedirectTo(response, GcPrefix \o <<"/">> \o platform)
           ELSE IsRedirectTo(response, GcPrefix)

\* C7 amended: POST /add is answered with a 303 to "/gc/<platform>" when the
\* form carries a platform and a game_name; when either is missing the
\* answer is the error page with the missing-fields message, and no
\* redirect to "/gc" is ever made.
C7_RedirectOnlyWhenValid ==
    ( Was(event, "POST", AddPath) /\ HasBody(event) )
    => LET platform == Get(FormBody(event), "platform")
       IN  /\ ~LacksCreateField(event)
              => IsRedirectTo(response, GcPrefix \o <<"/">> \o platform)
           /\ LacksCreateField(event)
              => IsErrorPage(response, 500, MissingCreateFields)
           /\ ~IsRedirectTo(response, GcPrefix)

\* C7 witness: POST /add with the platforms gcn, S (the first counts) and a
\* game_name has been redirected to /gc/gcn.
C7_Witness ==
    /\ Was(event, "POST", AddPath)
    /\ HasBody(event)
    /\ IsRedirectTo(response, GcPrefix \o <<"/">> \o PlatGcn)

\* C8: a GET of "/P" or "/gc/P", P a platform name other than "" and
\* "wishlist", lists exactly the owned records whose platform is P.
C8_PlatformListing ==
    \A P \in Platforms :
        ( /\ requests > 0
          /\ Method(event) = "GET"
          /\ RawPath(event) \in {RootPath \o P, GcPrefix \o RootPath \o P} )
        => /\ response.body.template = "index.html"
           /\ response.body.kwargs.games = {i \in table : i.platform = P /\ OwnedFilter(i)}

\* C9: a key that has been in the owned listing is never in the wishlist
\* listing afterwards; the only change of a record's status is wishlist to
\* owned, made by mark_as_purchased on its key; and mark_as_purchased on a
\* record that is owned already leaves the table as it was.
C9_StatusMonotone ==
    [][ /\ \A k \in everOwned' : k \notin WishlistKeys(table')
        /\ \A k \in Keys(table) \cap Keys(table') :
              StatusOf(ItemAt(table, k)) # StatusOf(ItemAt(table', k))
              => /\ StatusOf(ItemAt(table, k)) = "wishlist"
                 /\ StatusOf(ItemAt(table', k)) = "owned"
                 /\ Was(event', "POST", WishlistPurchasedPath)
                 /\ BodyKey(event') = k
        /\ ( /\ Was(event', "POST", WishlistPurchasedPath)
             /\ response'.statusCode = 303
             /\ BodyKey(event') \in OwnedKeys(table) )
           => table' = table ]_vars

\* C9 witness: mark_as_purchased has just been called a second time on a
\* record add_to_wishlist made, and the record is owned.
C9_Witness ==
    /\ Was(event, "POST", WishlistPurchasedPath)
    /\ response.statusCode = 303
    /\ BodyKey(event) \in wishlisted \cap everOwned
    /\ BodyKey(event) \in OwnedKeys(table)
    /\ CopiesIn(BodyKey(event), purchaseCalled) = 2

\* C10: an invocation answered with an HTML page (a listing, the 404 page,
\* the error page) leaves the table as it was; the table changes only in
\* invocations answered with a 303.
C10_HtmlLeavesTable ==
    [][ response'.statusCode # 303 => table' = table ]_vars

\* C10 witness: a delete without game_id, answered with the error page,
\* with records in the table.
C10_Witness ==
    /\ Method(event) = "DELETE"
    /\ IsErrorPage(response, 500, MissingKeyFields)
    /\ table # {}

=============================================================================
